---- MODULE Spec2Model ----
(***************************************************************************)
(* Model of DCMLab/consonance: consonance.py (interval reduction,          *)
(* histogram, exclusion-weight resolution, scoring) and                    *)
(* optimise_weights.py (exclusion partition, least-squares fit, padding).  *)
(*                                                                         *)
(* Conventions.                                                            *)
(*  - Python lists are sequences; Python index i is position i+1.          *)
(*  - A weight entry is a tuple: None is <<>>, a number is the reduced     *)
(*    fraction <<num, den>> with den > 0.  Floating point is idealised as  *)
(*    exact rational arithmetic.                                           *)
(*  - Each call is one action: pc goes from "call" to "done".              *)
(***************************************************************************)
EXTENDS Integers, Sequences, FiniteSets, TLC

VARIABLES pc, fn, agg_method,
          pitches, weights, intervals, counts, score,
          weights_lsts, hist, checked, picked,
          exclusion_ixs, output,
          pitches_lst, ratings, exclude_ivls, interval_set, exclusions,
          exclusion_groups, fitted

scoreVars == <<pitches, weights, intervals, counts, score>>
resVars   == <<weights_lsts, hist, checked, picked>>
combVars  == <<exclusion_ixs, output>>
optVars   == <<pitches_lst, ratings, exclude_ivls, interval_set, exclusions,
               exclusion_groups, fitted>>
vars      == <<pc, fn, agg_method, scoreVars, resVars, combVars, optVars>>

(***************************************************************************)
(* Bounds of the model.                                                    *)
(***************************************************************************)
MaxPitches == 3      \* longest pitch sequence handed to the scorers
MaxTables  == 4      \* longest list of weight tables
MaxLabels  == 2      \* longest list handed to exclusion_combinations
MaxChords  == 4      \* largest batch handed to the optimiser

(***************************************************************************)
(* Numbers.                                                                *)
(***************************************************************************)
None == <<>>

Abs(x) == IF x < 0 THEN -x ELSE x

RECURSIVE GCD(_, _)
GCD(a, b) == IF b = 0 THEN a ELSE GCD(b, a % b)

\* the reduced fraction n/d (d # 0)
Rat(n, d) ==
    LET g == GCD(Abs(n), Abs(d))
        s == IF d < 0 THEN -1 ELSE 1
    IN  <<(s * n) \div g, (s * d) \div g>>

RAdd(a, b) == Rat(a[1] * b[2] + b[1] * a[2], a[2] * b[2])
RMul(a, b) == Rat(a[1] * b[1], a[2] * b[2])

\* Python's a % 12 for any integer a: the result is in 0 .. 11
PyMod12(a) == ((a % 12) + 12) % 12

(***************************************************************************)
(* Sequence helpers standing for Python built-ins.                         *)
(***************************************************************************)
Range(s) == {s[i] : i \in DOMAIN s}

\* the list [F(1), ..., F(n)], built item by item
RECURSIVE SeqOf(_, _)
SeqOf(F(_), n) == IF n = 0 THEN <<>> ELSE Append(SeqOf(F, n - 1), F(n))

\* F(v) for a local variable v, which is computed once
Bind(v, F(_)) == CHOOSE y \in {F(x) : x \in {v}} : TRUE

\* list.index(x): the first position of x, 0 when x is absent (ValueError)
Index(items, x) ==
    IF \E i \in DOMAIN items : items[i] = x
    THEN CHOOSE i \in DOMAIN items :
            items[i] = x /\ \A k \in 1..(i - 1) : items[k] # x
    ELSE 0

\* lexicographic order of Python lists of integers
RECURSIVE ListLess(_, _)
ListLess(a, b) ==
    IF a = <<>> THEN b # <<>>
    ELSE IF b = <<>> THEN FALSE
    ELSE IF Head(a) # Head(b) THEN Head(a) < Head(b)
    ELSE ListLess(Tail(a), Tail(b))

\* insert x into the sorted sequence s after every element not greater than it
RECURSIVE InsertInt(_, _)
InsertInt(s, x) ==
    IF s = <<>> THEN <<x>>
    ELSE IF x < Head(s) THEN <<x>> \o s
    ELSE <<Head(s)>> \o InsertInt(Tail(s), x)

\* list.sort() / sorted() on integers
RECURSIVE SortInts(_)
SortInts(s) ==
    IF s = <<>> THEN <<>>
    ELSE InsertInt(SortInts(SubSeq(s, 1, Len(s) - 1)), s[Len(s)])

RECURSIVE InsertList(_, _)
InsertList(s, x) ==
    IF s = <<>> THEN <<x>>
    ELSE IF ListLess(x, Head(s)) THEN <<x>> \o s
    ELSE <<Head(s)>> \o InsertList(Tail(s), x)

\* list.sort() on lists of integers (stable)
RECURSIVE SortLists(_)
SortLists(s) ==
    IF s = <<>> THEN <<>>
    ELSE InsertList(SortLists(SubSeq(s, 1, Len(s) - 1)), s[Len(s)])

\* itertools.combinations(s, k), in the order itertools yields them
RECURSIVE Combinations(_, _)
Combinations(s, k) ==
    IF k = 0 THEN << <<>> >>
    ELSE IF Len(s) < k THEN <<>>
    ELSE LET with == Combinations(Tail(s), k - 1)
             without == Combinations(Tail(s), k)
         IN  SeqOf(LAMBDA i : <<Head(s)>> \o with[i], Len(with)) \o without

RECURSIVE Flatten(_)
Flatten(ss) == IF ss = <<>> THEN <<>> ELSE Head(ss) \o Flatten(Tail(ss))

\* all sequences over S of length lo .. hi
SeqsOf(S, lo, hi) == UNION {[1..n -> S] : n \in lo..hi}

(***************************************************************************)
(* consonance.py: interval reduction and histogram.                        *)
(***************************************************************************)
\* faulty variant: a difference of 0 is not mapped to 12
get_octave_intervals_keep0(ps) ==
    LET pairs == Combinations(ps, 2)
    IN  SortInts(SeqOf(LAMBDA i : PyMod12(pairs[i][2] - pairs[i][1]), Len(pairs)))

\* faulty variant: the intervals are returned in pair order, not sorted
get_octave_intervals_unsorted(ps) ==
    LET pairs == Combinations(ps, 2)
    IN  SeqOf(LAMBDA i : IF PyMod12(pairs[i][2] - pairs[i][1]) = 0 THEN 12
                         ELSE PyMod12(pairs[i][2] - pairs[i][1]), Len(pairs))

get_octave_intervals(ps) ==
    LET pairs == Combinations(ps, 2)
        raw_intervals == SeqOf(LAMBDA i : pairs[i][2] - pairs[i][1], Len(pairs))
        oct_intervals == SeqOf(LAMBDA i : IF PyMod12(raw_intervals[i]) = 0 THEN 12
                                          ELSE PyMod12(raw_intervals[i]),
                               Len(raw_intervals))
    IN  SortInts(oct_intervals)

interval_class(interval) ==
    IF interval < 12 - interval THEN interval ELSE 12 - interval

\* count(lst, items): ok is FALSE when items.index(x) raises ValueError
count(lst, items) ==
    [ok |-> \A i \in DOMAIN lst : Index(items, lst[i]) # 0,
     counts |-> SeqOf(LAMBDA k :
                        Cardinality({i \in DOMAIN lst : Index(items, lst[i]) = k}),
                      Len(items))]

IntervalLabels == [i \in 1..12 |-> i]     \* range(1, 13)
ClassLabels    == [i \in 1..7 |-> i - 1]  \* range(7)

(***************************************************************************)
(* consonance.py: exclusion-weight resolver.                               *)
(***************************************************************************)
\* sorted([i for i, w in enumerate(weights) if w == None])
RECURSIVE NullsUpTo(_, _)
NullsUpTo(table, n) ==
    IF n = 0 THEN <<>>
    ELSE IF table[n] = None THEN Append(NullsUpTo(table, n - 1), n)
    ELSE NullsUpTo(table, n - 1)

NullIxs(table) == SortInts(NullsUpTo(table, Len(table)))

\* faulty variant: the final output.sort() is missing
exclusion_combinations_unsorted(ixs) ==
    LET OfSize(i) == LET cs == Combinations(ixs, i)
                     IN  SeqOf(LAMBDA j : SortInts(cs[j]), Len(cs))
    IN  << <<>> >> \o Flatten(SeqOf(OfSize, Len(ixs)))

exclusion_combinations(ixs) ==
    LET OfSize(i) == LET cs == Combinations(ixs, i)
                     IN  SeqOf(LAMBDA j : SortInts(cs[j]), Len(cs))
        bySize == SeqOf(OfSize, Len(ixs))
    IN  SortLists(<< <<>> >> \o Flatten(bySize))

\* the inner loop of lines 80-83 over the first n items of one list: the
\* items that are neither in ixs nor met before
RECURSIVE NewIxs(_, _, _)
NewIxs(lst, n, ixs) ==
    IF n = 0 THEN <<>>
    ELSE Bind(NewIxs(lst, n - 1, ixs), LAMBDA new :
              IF lst[n] \in Range(ixs) \cup Range(new) THEN new
              ELSE Append(new, lst[n]))

\* the loop of lines 79-83 over the first n lists of lst_ixs: the indices
\* in order of first appearance
RECURSIVE FirstSeen(_, _)
FirstSeen(lst_ixs, n) ==
    IF n = 0 THEN <<>>
    ELSE Bind(FirstSeen(lst_ixs, n - 1), LAMBDA ixs :
              ixs \o NewIxs(lst_ixs[n], Len(lst_ixs[n]), ixs))

\* faulty variant: the signatures are compared as sets, so a repeated one passes
check_weight_exclusions_sets(wl) ==
    IF wl = <<>> THEN "IndexError"
    ELSE IF \E i \in 2..Len(wl) : Len(wl[i]) # Len(wl[1])
    THEN "weights lists must all have the same length"
    ELSE LET sigs == {NullsUpTo(wl[i], Len(wl[i])) : i \in DOMAIN wl}
             all == UNION {Range(x) : x \in sigs}
         IN  IF {Range(x) : x \in sigs} # SUBSET all
             THEN "exclusion combinations are not complete"
             ELSE "ok"

\* "ok", or the exception the call raises
check_weight_exclusions(wl) ==
    IF wl = <<>> THEN "IndexError"
    ELSE IF \E i \in 2..Len(wl) : Len(wl[i]) # Len(wl[1])
    THEN "weights lists must all have the same length"
    ELSE LET lst_ixs == SortLists(SeqOf(LAMBDA i : NullIxs(wl[i]), Len(wl)))
             ixs == FirstSeen(lst_ixs, Len(lst_ixs))
         IN  \* exclusion_combinations(ixs) has 2^len(ixs) items, so a list
             \* of another length differs from it without building it
             IF Len(lst_ixs) # 2 ^ Len(ixs) \/ lst_ixs # exclusion_combinations(ixs)
             THEN "exclusion combinations are not complete"
             ELSE "ok"

\* np.argsort(keys): positions by ascending key; numpy sorts arrays of at
\* most 16 elements by insertion, which keeps equal keys in index order
RECURSIVE ArgInsert(_, _, _)
ArgInsert(order, keys, i) ==
    IF order = <<>> THEN <<i>>
    ELSE IF keys[i] < keys[Head(order)] THEN <<i>> \o order
    ELSE <<Head(order)>> \o ArgInsert(Tail(order), keys, i)

RECURSIVE ArgSortUpTo(_, _)
ArgSortUpTo(keys, n) ==
    IF n = 0 THEN <<>> ELSE ArgInsert(ArgSortUpTo(keys, n - 1), keys, n)

ArgSort(keys) == ArgSortUpTo(keys, Len(keys))

\* np.flip
Flip(s) == SeqOf(LAMBDA i : s[Len(s) + 1 - i], Len(s))

NoneToZero(table) ==
    SeqOf(LAMBDA k : IF table[k] = None THEN <<0, 1>> ELSE table[k], Len(table))

\* the first table, in `order`, none of whose null labels has a positive count
RECURSIVE FirstIncluded(_, _, _, _)
FirstIncluded(order, lst_ixs, cnts, wl) ==
    IF order = <<>> THEN [ret |-> "None", table |-> <<>>]
    ELSE LET i == Head(order)
         IN  IF \E k \in DOMAIN lst_ixs[i] : lst_ixs[i][k] > Len(cnts)
             THEN [ret |-> "IndexError", table |-> <<>>]
             ELSE IF ~ \E k \in DOMAIN lst_ixs[i] : cnts[lst_ixs[i][k]] > 0
             THEN [ret |-> "table", table |-> NoneToZero(wl[i])]
             ELSE FirstIncluded(Tail(order), lst_ixs, cnts, wl)

\* faulty variant: np.flip is missing, the smallest signature is tried first
get_inclusion_weights_ascending(cnts, wl) ==
    LET lst_ixs == SeqOf(LAMBDA i : NullIxs(wl[i]), Len(wl))
        order == ArgSort(SeqOf(LAMBDA i : Len(lst_ixs[i]), Len(wl)))
    IN  FirstIncluded(order, lst_ixs, cnts, wl)

get_inclusion_weights(cnts, wl) ==
    LET lst_ixs == SeqOf(LAMBDA i : NullIxs(wl[i]), Len(wl))
        order == Flip(ArgSort(SeqOf(LAMBDA i : Len(lst_ixs[i]), Len(wl))))
    IN  FirstIncluded(order, lst_ixs, cnts, wl)

(***************************************************************************)
(* consonance.py: the two scorers.  A `weights` argument is               *)
(* [nested |-> FALSE, w |-> table] or [nested |-> TRUE, w |-> tables];    *)
(* nested is the outcome of type(weights[0]) == list.                      *)
(***************************************************************************)
\* np.inner(counts, weights) over fractions
RECURSIVE InnerUpTo(_, _, _)
InnerUpTo(cnts, w, n) ==
    IF n = 0 THEN <<0, 1>>
    ELSE RAdd(InnerUpTo(cnts, w, n - 1), RMul(<<cnts[n], 1>>, w[n]))

Inner(cnts, w) == InnerUpTo(cnts, w, Len(cnts))

\* lines 17-29 (and 45-58), after the histogram is built
Consonance(ivls, cnts, wts, agg, nLabels, lenError) ==
    LET chk == IF wts.nested THEN check_weight_exclusions(wts.w) ELSE "ok"
        sel == IF wts.nested /\ chk = "ok"
               THEN get_inclusion_weights(cnts, wts.w)
               ELSE [ret |-> "table", table |-> wts.w]
    IN  IF chk # "ok" THEN [kind |-> "error", msg |-> chk]
        ELSE IF sel.ret # "table" THEN [kind |-> "error", msg |-> sel.ret]
        ELSE IF Len(sel.table) # nLabels THEN [kind |-> "error", msg |-> lenError]
        ELSE IF agg = "sum"
        THEN [kind |-> "number", value |-> Inner(cnts, sel.table)]
        ELSE IF agg = "type"
        THEN IF Len(ivls) = 0
             \* counts / 0 is an array of nan (numpy warns, does not raise)
             THEN [kind |-> "nan"]
             ELSE [kind |-> "number",
                   value |-> RMul(Inner(cnts, sel.table), <<1, Len(ivls)>>)]
        \* neither branch assigns score: UnboundLocalError at the return
        ELSE [kind |-> "error", msg |-> "UnboundLocalError"]

interval_consonance(ps, wts, agg) ==
    LET ivls == get_octave_intervals(ps)
        c == count(ivls, IntervalLabels)
    IN  IF ~c.ok THEN [kind |-> "error", msg |-> "ValueError"]
        ELSE IF wts.w = <<>> THEN [kind |-> "error", msg |-> "IndexError"]
        ELSE Consonance(ivls, c.counts, wts, agg, 12, "weights must be of length 12")

interval_class_consonance(ps, wts, agg) ==
    LET ivls == get_octave_intervals(ps)
        interval_classes == SeqOf(LAMBDA i : interval_class(ivls[i]), Len(ivls))
        c == count(interval_classes, ClassLabels)
    IN  IF ~c.ok THEN [kind |-> "error", msg |-> "ValueError"]
        ELSE IF wts.w = <<>> THEN [kind |-> "error", msg |-> "IndexError"]
        ELSE Consonance(ivls, c.counts, wts, agg, 7, "weights must be of length 7")

(***************************************************************************)
(* Inputs of the scoring calls.                                            *)
(***************************************************************************)
\* pitches whose pairwise differences, up or down, reduce to every interval
\* of 1..12
Pitches == {60, 61, 64, 67, 70}

Num(v) == <<v, 1>>

\* 1 at position k, 0 elsewhere
UnitTable(n, k) == [i \in 1..n |-> IF i = k THEN Num(1) ELSE Num(0)]

\* weight i at position i
Ramp(n) == [i \in 1..n |-> Num(i)]

Flat(table) == [nested |-> FALSE, w |-> table]
Nested(tables) == [nested |-> TRUE, w |-> tables]

ScoreWeights ==
    { Flat(UnitTable(12, 4)), Flat(Ramp(12)), Flat(Ramp(7)),
      Nested(<< [Ramp(12) EXCEPT ![7] = None], Ramp(12) >>),
      Nested(<< Ramp(7), [Ramp(7) EXCEPT ![1] = None] >>),
      Nested(<< [Ramp(12) EXCEPT ![7] = None] >>) }

AggMethods == {"sum", "type", "mean"}

NoScore == [kind |-> "none"]
NoCount == [ok |-> TRUE, counts |-> <<>>]
NoPick  == [ret |-> "None", table |-> <<>>]

ScoreIdle ==
    /\ pitches = <<>> /\ weights = Flat(<<>>)
    /\ intervals = <<>> /\ counts = NoCount /\ score = NoScore

ResIdle ==
    /\ weights_lsts = <<>> /\ hist = <<>> /\ checked = "" /\ picked = NoPick

CombIdle == exclusion_ixs = <<>> /\ output = <<>>

OptIdle ==
    /\ pitches_lst = <<>> /\ ratings = <<>> /\ exclude_ivls = <<>>
    /\ interval_set = <<>> /\ exclusions = <<>> /\ exclusion_groups = <<>>
    /\ fitted = [ret |-> "none", fits |-> <<>>]

(***************************************************************************)
(* Scoring calls.                                                          *)
(***************************************************************************)
ScoreInit ==
    /\ pc = "call" /\ fn = ""
    /\ pitches \in SeqsOf(Pitches, 0, MaxPitches)
    /\ weights \in ScoreWeights
    /\ agg_method \in AggMethods
    /\ intervals = <<>> /\ counts = NoCount /\ score = NoScore
    /\ ResIdle /\ CombIdle /\ OptIdle

IntervalConsonance ==
    /\ pc = "call"
    /\ pc' = "done"
    /\ fn' = "interval_consonance"
    /\ intervals' = get_octave_intervals(pitches)
    /\ counts' = count(intervals', IntervalLabels)
    /\ score' = interval_consonance(pitches, weights, agg_method)
    /\ UNCHANGED <<agg_method, pitches, weights, resVars, combVars, optVars>>

IntervalClassConsonance ==
    /\ pc = "call"
    /\ pc' = "done"
    /\ fn' = "interval_class_consonance"
    /\ intervals' = get_octave_intervals(pitches)
    /\ counts' = count(SeqOf(LAMBDA i : interval_class(intervals'[i]),
                              Len(intervals')),
                        ClassLabels)
    /\ score' = interval_class_consonance(pitches, weights, agg_method)
    /\ UNCHANGED <<agg_method, pitches, weights, resVars, combVars, optVars>>

ScoreNext == IntervalConsonance \/ IntervalClassConsonance

SpecScore == ScoreInit /\ [][ScoreNext]_vars

RECURSIVE SumUpTo(_, _)
SumUpTo(s, n) == IF n = 0 THEN 0 ELSE SumUpTo(s, n - 1) + s[n]

Scored == pc = "done" /\ fn \in {"interval_consonance", "interval_class_consonance"}

\* C1: for a pitch sequence of length n >= 2 every reduced interval is in
\* 1..12 and every class in 0..6, count meets no value outside its labels,
\* and the 12-entry and the 7-entry histogram both sum to n*(n-1)/2.
C1_HistogramSum ==
    (Scored /\ Len(pitches) >= 2) =>
        /\ \A i \in DOMAIN intervals :
              /\ intervals[i] \in 1..12
              /\ interval_class(intervals[i]) \in 0..6
        /\ counts.ok
        /\ Len(counts.counts) = (IF fn = "interval_consonance" THEN 12 ELSE 7)
        /\ 2 * SumUpTo(counts.counts, Len(counts.counts))
              = Len(pitches) * (Len(pitches) - 1)

\* a descending sequence with a repeated pitch, scored by interval class:
\* a unison (12, class 0) and two negative raw differences
C1_Witness ==
    /\ Scored /\ fn = "interval_class_consonance"
    /\ Len(pitches) = 3 /\ pitches[1] > pitches[2] /\ pitches[2] = pitches[3]
    /\ counts.counts[1] = 1
    /\ SumUpTo(counts.counts, 7) = 3

ValidFlat(n) == ~weights.nested /\ Len(weights.w) = n

\* C5 (as claimed): with fewer than 2 pitches both scorers raise, for either
\* aggregation mode and any valid flat weight table.
C5_InsufficientPitches ==
    ( /\ Scored
      /\ Len(pitches) < 2
      /\ agg_method \in {"sum", "type"}
      /\ ValidFlat(IF fn = "interval_consonance" THEN 12 ELSE 7) )
    => score.kind = "error"

MajorTriadCall ==
    /\ pc = "done" /\ fn = "interval_consonance"
    /\ pitches = <<60, 64, 67>>
    /\ weights = Flat(UnitTable(12, 4))
    /\ agg_method = "type"

\* C6 (as claimed): for pitches [60,64,67] the reduced intervals are [3,4,5]
\* and the "type" score under the weight table that is 1 at interval 4 is 1/3.
C6_Original ==
    MajorTriadCall =>
        /\ intervals = <<3, 4, 5>>
        /\ score = [kind |-> "number", value |-> <<1, 3>>]

\* C6 (amended): for pitches [60,64,67] the reduced intervals are [3,4,7]
\* and the "type" score under the weight table that is 1 at interval 4 is 1/3.
C6_MajorTriad ==
    MajorTriadCall =>
        /\ intervals = <<3, 4, 7>>
        /\ score = [kind |-> "number", value |-> <<1, 3>>]

C6_Witness == MajorTriadCall /\ score.kind = "number"

(***************************************************************************)
(* Resolver calls on a small label space.  Table i carries the weight i   *)
(* at every position that is not None, so a table is known by its values. *)
(***************************************************************************)
TablePositions == {1, 2}
TableLen == Cardinality(TablePositions)

TableOf(n, nulls, v) == [k \in 1..n |-> IF k \in nulls THEN None ELSE Num(v)]

\* the null patterns of a table: any subset of the positions, or a table
\* that is one entry short
Patterns ==
    {[len |-> TableLen, nulls |-> S] : S \in SUBSET TablePositions}
        \cup {[len |-> TableLen - 1, nulls |-> {}]}

TablesOf(ps) == [i \in 1..Len(ps) |-> TableOf(ps[i].len, ps[i].nulls, i)]

ResInit ==
    /\ pc = "call" /\ fn = "" /\ agg_method = "type"
    /\ \E ps \in SeqsOf(Patterns, 0, MaxTables) : weights_lsts = TablesOf(ps)
    /\ hist \in [1..TableLen -> {0, 1}]
    /\ checked = "" /\ picked = NoPick
    /\ ScoreIdle /\ CombIdle /\ OptIdle

CheckWeightExclusions ==
    /\ pc = "call"
    /\ pc' = "done"
    /\ fn' = "check_weight_exclusions"
    /\ checked' = check_weight_exclusions(weights_lsts)
    /\ UNCHANGED <<agg_method, weights_lsts, hist, picked, scoreVars, combVars,
                   optVars>>

GetInclusionWeights ==
    /\ pc = "call"
    /\ pc' = "done"
    /\ fn' = "get_inclusion_weights"
    /\ picked' = get_inclusion_weights(hist, weights_lsts)
    /\ UNCHANGED <<agg_method, weights_lsts, hist, checked, scoreVars, combVars,
                   optVars>>

ResNext == CheckWeightExclusions \/ GetInclusionWeights

SpecRes == ResInit /\ [][ResNext]_vars

NullSet(table) == {k \in DOMAIN table : table[k] = None}

AllNulls(wl) == UNION {NullSet(wl[i]) : i \in DOMAIN wl}

EqualLengths(wl) == \A i \in DOMAIN wl : Len(wl[i]) = Len(wl[1])

\* every subset of the null positions is the signature of exactly one table
CoversPowerset(wl) ==
    \A S \in SUBSET AllNulls(wl) :
        Cardinality({i \in DOMAIN wl : NullSet(wl[i]) = S}) = 1

ZeroAt(cnts, S) == \A k \in S : cnts[k] = 0

\* C2: for tables that pass check_weight_exclusions, get_inclusion_weights
\* returns the table with the largest null set among those whose null
\* positions all have a zero count, with every None replaced by 0.
C2_LargestExclusion ==
    ( /\ pc = "done" /\ fn = "get_inclusion_weights"
      /\ check_weight_exclusions(weights_lsts) = "ok" )
    => /\ picked.ret = "table"
       /\ \E i \in DOMAIN weights_lsts :
            /\ ZeroAt(hist, NullSet(weights_lsts[i]))
            /\ \A k \in DOMAIN weights_lsts :
                 ZeroAt(hist, NullSet(weights_lsts[k]))
                    => Cardinality(NullSet(weights_lsts[k]))
                          <= Cardinality(NullSet(weights_lsts[i]))
            /\ Len(picked.table) = Len(weights_lsts[i])
            /\ \A p \in DOMAIN picked.table :
                 picked.table[p] = IF p \in NullSet(weights_lsts[i])
                                   THEN <<0, 1>> ELSE weights_lsts[i][p]

\* zero count at position 1 only; the tables null at {1} and at {} qualify
\* among the four of a full powerset, and the one null at {1} is returned
C2_Witness ==
    /\ pc = "done" /\ fn = "get_inclusion_weights"
    /\ Len(weights_lsts) = 4
    /\ check_weight_exclusions(weights_lsts) = "ok"
    /\ hist = <<0, 1>>
    /\ picked.ret = "table"
    /\ picked.table[1] = <<0, 1>> /\ picked.table[2] # <<0, 1>>

\* C3: equal-length tables are accepted exactly when their null signatures
\* are the subsets of the union of null positions, each once; otherwise the
\* "not complete" error is raised, and unequal lengths fail before that.
C3_PowersetCoverage ==
    ( /\ pc = "done" /\ fn = "check_weight_exclusions"
      /\ weights_lsts # <<>> )
    => /\ (checked = "ok")
            <=> (EqualLengths(weights_lsts) /\ CoversPowerset(weights_lsts))
       /\ ~EqualLengths(weights_lsts)
            => checked = "weights lists must all have the same length"
       /\ (EqualLengths(weights_lsts) /\ ~CoversPowerset(weights_lsts))
            => checked = "exclusion combinations are not complete"

\* four tables over two null positions are accepted
C3_Witness ==
    /\ pc = "done" /\ fn = "check_weight_exclusions"
    /\ Len(weights_lsts) = 4
    /\ AllNulls(weights_lsts) = {1, 2}
    /\ checked = "ok"

(***************************************************************************)
(* exclusion_combinations calls.                                           *)
(***************************************************************************)
ComboLabels == 0..12

CombInit ==
    /\ pc = "call" /\ fn = "" /\ agg_method = "type"
    /\ exclusion_ixs \in SeqsOf(ComboLabels, 0, MaxLabels)
    /\ output = <<>>
    /\ ScoreIdle /\ ResIdle /\ OptIdle

ExclusionCombinations ==
    /\ pc = "call"
    /\ pc' = "done"
    /\ fn' = "exclusion_combinations"
    /\ output' = exclusion_combinations(exclusion_ixs)
    /\ UNCHANGED <<agg_method, exclusion_ixs, scoreVars, resVars, optVars>>

CombNext == ExclusionCombinations

SpecComb == CombInit /\ [][CombNext]_vars

\* exclusion_combinations of n distinct labels has 2^n items (the fact
\* check_weight_exclusions relies on to compare lengths first)
CombinationCount ==
    (pc = "done" /\ fn = "exclusion_combinations"
        /\ \A i, j \in DOMAIN exclusion_ixs :
              i # j => exclusion_ixs[i] # exclusion_ixs[j])
    => Len(output) = 2 ^ Len(exclusion_ixs)

TwoAscending ==
    /\ pc = "done" /\ fn = "exclusion_combinations"
    /\ Len(exclusion_ixs) = 2
    /\ exclusion_ixs[1] < exclusion_ixs[2]

\* C4 (as claimed): for a < b, exclusion_combinations([a, b]) returns
\* [[], [a], [b], [a, b]], in that order.
C4_Original ==
    TwoAscending =>
        output = << <<>>, <<exclusion_ixs[1]>>, <<exclusion_ixs[2]>>,
                    <<exclusion_ixs[1], exclusion_ixs[2]>> >>

\* C4 (amended): for a < b, exclusion_combinations([a, b]) returns
\* [[], [a], [a, b], [b]], the subsets in lexicographic list order.
C4_Lexicographic ==
    TwoAscending =>
        output = << <<>>, <<exclusion_ixs[1]>>,
                    <<exclusion_ixs[1], exclusion_ixs[2]>>,
                    <<exclusion_ixs[2]>> >>

C4_Witness == TwoAscending /\ Len(output) = 4

(***************************************************************************)
(* Python sets of small non-negative integers, as CPython builds them     *)
(* for set(iterable) and for a set comprehension: an open-addressing       *)
(* table of 8 slots that grows once it is 3/5 full; hash(k) = k.  A table *)
(* is a sequence of slots, slot i at position i + 1, -1 for an unused one. *)
(***************************************************************************)
EmptySet == SeqOf(LAMBDA i : -1, 8)

Used(t) == Cardinality({i \in DOMAIN t : t[i] # -1})

\* the slot where key lands: the entry at i, then up to 9 entries after it
\* when they fit in the table, then i = (5 i + 1 + perturb) mod size
RECURSIVE Probe(_, _, _, _)
Probe(t, key, i, perturb) ==
    LET mask == Len(t) - 1
        probes == IF i + 9 <= mask THEN 9 ELSE 0
        hits == {j \in i..(i + probes) : t[j + 1] = -1 \/ t[j + 1] = key}
    IN  IF hits # {}
        THEN CHOOSE j \in hits : \A h \in hits : j <= h
        ELSE Probe(t, key, (i * 5 + 1 + (perturb \div 32)) % Len(t),
                   perturb \div 32)

Slot(t, key) == Probe(t, key, key % Len(t), key)

RECURSIVE UsedUpTo(_, _)
UsedUpTo(t, n) ==
    IF n = 0 THEN <<>>
    ELSE IF t[n] = -1 THEN UsedUpTo(t, n - 1)
    ELSE Append(UsedUpTo(t, n - 1), t[n])

\* iteration over a set: the used slots in table order
SetList(t) == UsedUpTo(t, Len(t))

RECURSIVE InsertClean(_, _)
InsertClean(t, keys) ==
    IF keys = <<>> THEN t
    ELSE InsertClean([t EXCEPT ![Slot(t, Head(keys)) + 1] = Head(keys)],
                     Tail(keys))

RECURSIVE NewSize(_, _)
NewSize(size, minused) ==
    IF size <= minused THEN NewSize(2 * size, minused) ELSE size

\* set_table_resize: a table of the next power of two above 4 * used,
\* refilled in the old table's order
Resize(t) ==
    InsertClean(SeqOf(LAMBDA i : -1, NewSize(8, 4 * Used(t))), SetList(t))

SetAdd(t, key) ==
    LET slot == Slot(t, key)
    IN  IF t[slot + 1] = key THEN t
        ELSE LET u == [t EXCEPT ![slot + 1] = key]
             IN  IF Used(u) * 5 < (Len(u) - 1) * 3 THEN u ELSE Resize(u)

RECURSIVE SetUpdate(_, _)
SetUpdate(t, keys) ==
    IF keys = <<>> THEN t ELSE SetUpdate(SetAdd(t, Head(keys)), Tail(keys))

\* set(keys), and {x for x in keys}
PySet(keys) == SetUpdate(EmptySet, keys)

InSet(t, key) == \E i \in DOMAIN t : t[i] = key

(***************************************************************************)
(* optimise_weights.py: least squares by the normal equations.  A matrix  *)
(* is a sequence of rows.  numpy's inverse is idealised: it raises        *)
(* LinAlgError exactly when the matrix is singular.                        *)
(***************************************************************************)
DropAt(s, j) == SubSeq(s, 1, j - 1) \o SubSeq(s, j + 1, Len(s))

\* determinant, by expansion along the first row
RECURSIVE Det(_)
RECURSIVE DetTerms(_, _)
DetTerms(M, j) ==
    IF j = 0 THEN 0
    ELSE DetTerms(M, j - 1)
         + (IF j % 2 = 1 THEN 1 ELSE -1) * M[1][j]
             * Det(SeqOf(LAMBDA r : DropAt(M[r + 1], j), Len(M) - 1))
Det(M) == IF Len(M) = 0 THEN 1 ELSE DetTerms(M, Len(M))

RECURSIVE LCM(_)
LCM(s) ==
    IF s = <<>> THEN 1
    ELSE LET l == LCM(Tail(s)) IN (Head(s) * l) \div GCD(Head(s), l)

RECURSIVE DotUpTo(_, _, _)
DotUpTo(x, y, n) == IF n = 0 THEN 0 ELSE DotUpTo(x, y, n - 1) + x[n] * y[n]

\* optimise_weights, for chords of at least one interval.  The rows of A
\* are kept as integers: with D the least common multiple of the chords'
\* interval counts, a = D * A, and (a^T a) w = D * a^T ratings is the
\* system (A^T A) w = A^T ratings.  coef[j] belongs to column j, the column
\* that counts cols[j].
optimise_weights(ivls_lst, rts, ivl_set, agg) ==
    IF Len(ivls_lst) # Len(rts)
    THEN [ret |-> "lists of chords and ratings must be same length",
          cols |-> <<>>, coef |-> <<>>]
    ELSE
    LET n == Len(rts)
        cols == SetList(ivl_set)
        m == Len(cols)
        D == IF agg = "type" THEN LCM(SeqOf(LAMBDA i : Len(ivls_lst[i]), n)) ELSE 1
        cnt == SeqOf(LAMBDA i : count(ivls_lst[i], cols), n)
        Row(i) == SeqOf(LAMBDA j :
                          IF agg = "sum" THEN cnt[i].counts[j]
                          ELSE IF agg = "type"
                          THEN cnt[i].counts[j] * (D \div Len(ivls_lst[i]))
                          ELSE 0, m)
        a == SeqOf(Row, n)
        At == SeqOf(LAMBDA j : SeqOf(LAMBDA i : a[i][j], n), m)
        G == SeqOf(LAMBDA j : SeqOf(LAMBDA k : DotUpTo(At[j], At[k], n), m), m)
        b == SeqOf(LAMBDA j : D * DotUpTo(At[j], rts, n), m)
        Gb(j) == SeqOf(LAMBDA r :
                         SeqOf(LAMBDA k : IF k = j THEN b[r] ELSE G[r][k], m), m)
        detG == Det(G)
    IN  IF \E i \in 1..n : ~cnt[i].ok
        THEN [ret |-> "ValueError", cols |-> cols, coef |-> <<>>]
        ELSE IF m > n \/ detG = 0
        THEN [ret |-> "LinAlgError", cols |-> cols, coef |-> <<>>]
        ELSE [ret |-> "weights", cols |-> cols,
              coef |-> SeqOf(LAMBDA j : Rat(Det(Gb(j)), detG), m)]

\* include_missing: the loop over the first n items of full_range; the
\* counter j is the number of items met so far that are in the set
RECURSIVE PadUpTo(_, _, _, _)
PadUpTo(wts, ivl_set, full_range, n) ==
    IF n = 0 THEN [ret |-> "table", table |-> <<>>, j |-> 0]
    ELSE LET prev == PadUpTo(wts, ivl_set, full_range, n - 1)
         IN  IF prev.ret # "table" THEN prev
             ELSE IF InSet(ivl_set, full_range[n])
             THEN IF prev.j + 1 > Len(wts)
                  THEN [ret |-> "IndexError", table |-> <<>>, j |-> prev.j]
                  ELSE [ret |-> "table",
                        table |-> Append(prev.table, wts[prev.j + 1]),
                        j |-> prev.j + 1]
             ELSE [ret |-> "table", table |-> Append(prev.table, None),
                   j |-> prev.j]

include_missing(wts, ivl_set, full_range) ==
    PadUpTo(wts, ivl_set, full_range, Len(full_range))

\* the first group, counted from 0, none of whose labels is in the chord;
\* -1 when the loop ends without a break
RECURSIVE FirstGroup(_, _, _)
FirstGroup(ivls, excl, j) ==
    IF j > Len(excl) THEN -1
    ELSE IF \A k \in DOMAIN ivls : ivls[k] \notin Range(excl[j]) THEN j - 1
    ELSE FirstGroup(ivls, excl, j + 1)

\* faulty variant: the loop has no break, the last matching group wins
RECURSIVE LastGroup(_, _, _)
LastGroup(ivls, excl, j) ==
    IF j = 0 THEN -1
    ELSE IF \A k \in DOMAIN ivls : ivls[k] \notin Range(excl[j]) THEN j - 1
    ELSE LastGroup(ivls, excl, j - 1)

get_exclusion_groups_nobreak(ivls_lst, size, excl, garbage) ==
    SeqOf(LAMBDA i :
            IF i <= Len(ivls_lst) /\ LastGroup(ivls_lst[i], excl, Len(excl)) # -1
            THEN LastGroup(ivls_lst[i], excl, Len(excl))
            ELSE garbage, size)

\* get_exclusion_groups: np.empty(size) entries that the loop does not
\* assign keep whatever the memory held, here the value `garbage`
get_exclusion_groups(ivls_lst, size, excl, garbage) ==
    SeqOf(LAMBDA i :
            IF i <= Len(ivls_lst) /\ FirstGroup(ivls_lst[i], excl, 1) # -1
            THEN FirstGroup(ivls_lst[i], excl, 1)
            ELSE garbage, size)

\* exclusions.sort(key=len, reverse=True): stable, longest first
RECURSIVE InsertByLen(_, _)
InsertByLen(s, x) ==
    IF s = <<>> THEN <<x>>
    ELSE IF Len(x) > Len(Head(s)) THEN <<x>> \o s
    ELSE <<Head(s)>> \o InsertByLen(Tail(s), x)

\* faulty variant: reverse=True is missing, shortest first
RECURSIVE InsertByLenAscending(_, _)
InsertByLenAscending(s, x) ==
    IF s = <<>> THEN <<x>>
    ELSE IF Len(x) < Len(Head(s)) THEN <<x>> \o s
    ELSE <<Head(s)>> \o InsertByLenAscending(Tail(s), x)

RECURSIVE SortByLenAscending(_)
SortByLenAscending(s) ==
    IF s = <<>> THEN <<>>
    ELSE InsertByLenAscending(SortByLenAscending(SubSeq(s, 1, Len(s) - 1)),
                              s[Len(s)])

RECURSIVE SortByLenReverse(_)
SortByLenReverse(s) ==
    IF s = <<>> THEN <<>>
    ELSE InsertByLen(SortByLenReverse(SubSeq(s, 1, Len(s) - 1)), s[Len(s)])

RECURSIVE Where(_, _)
Where(mask, n) ==
    IF n = 0 THEN <<>>
    ELSE IF mask[n] THEN Append(Where(mask, n - 1), n) ELSE Where(mask, n - 1)

RECURSIVE Without(_, _)
Without(s, ex) ==
    IF s = <<>> THEN <<>>
    ELSE IF Head(s) \in Range(ex) THEN Without(Tail(s), ex)
    ELSE <<Head(s)>> \o Without(Tail(s), ex)

\* np.array(lists, dtype=object) is an n x m matrix when the n lists all
\* have m items, and a vector of n lists otherwise; this is its .size
ArraySize(ivls_lst) ==
    IF \A i \in DOMAIN ivls_lst : Len(ivls_lst[i]) = Len(ivls_lst[1])
    THEN Len(ivls_lst) * Len(ivls_lst[1])
    ELSE Len(ivls_lst)

\* one fit and its padding (lines 20-21, and 30-33 for group i)
Fit(ivls_lst, rts, ivl_set, agg) ==
    Bind(optimise_weights(ivls_lst, rts, ivl_set, agg), LAMBDA ow :
    Bind(include_missing(ow.coef, ivl_set, IntervalLabels), LAMBDA im :
         IF ow.ret # "weights"
         THEN [ret |-> ow.ret, cols |-> ow.cols, coef |-> <<>>, table |-> <<>>]
         ELSE [ret |-> im.ret, cols |-> ow.cols, coef |-> ow.coef,
               table |-> im.table]))

\* the body of the loop of lines 29-34 for the i-th group
GroupFit(ivls_lst, rts, ivl_set, excl, groups, agg, i) ==
    Bind(PySet(Without(SetList(ivl_set), excl[i])), LAMBDA ex_ivl_set :
    Bind(SeqOf(LAMBDA k : groups[k] = i - 1, Len(groups)), LAMBDA mask :
    Bind(Where(mask, Len(mask)), LAMBDA sel :
         IF Len(mask) # Len(ivls_lst)
         \* the boolean index does not match the array along dimension 0
         THEN [ret |-> "IndexError", cols |-> <<>>, coef |-> <<>>, table |-> <<>>]
         ELSE Fit(SeqOf(LAMBDA k : ivls_lst[sel[k]], Len(sel)),
                  SeqOf(LAMBDA k : rts[sel[k]], Len(sel)),
                  ex_ivl_set, agg))))

\* the exclusions path, lines 24-36
ExclusionFits(ivls_lst, rts, ivl_set, excl_ivls, agg, garbage) ==
    Bind(SortByLenReverse(exclusion_combinations(excl_ivls)), LAMBDA excl :
    Bind(get_exclusion_groups(ivls_lst, ArraySize(ivls_lst), excl, garbage),
         LAMBDA groups :
    Bind(SeqOf(LAMBDA i : GroupFit(ivls_lst, rts, ivl_set, excl, groups, agg, i),
               Len(excl)), LAMBDA fs :
    Bind({i \in 1..Len(excl) : fs[i].ret # "table"}, LAMBDA bad :
         [ret |-> IF bad = {} THEN "tables"
                  ELSE fs[CHOOSE i \in bad : \A k \in bad : i <= k].ret,
          interval_set |-> ivl_set, exclusions |-> excl,
          exclusion_groups |-> groups,
          fits |-> IF bad = {} THEN fs ELSE <<>>]))))

\* optimise_interval_weights for a batch of at least one chord; fits holds
\* what each call of optimise_weights and include_missing returned
optimise_interval_weights(ps_lst, rts, excl_ivls, agg, garbage) ==
    Bind(SeqOf(LAMBDA i : get_octave_intervals(ps_lst[i]), Len(ps_lst)),
         LAMBDA ivls_lst :
    Bind(PySet(Flatten(ivls_lst)), LAMBDA ivl_set :
         IF excl_ivls = <<>>
         THEN Bind(Fit(ivls_lst, rts, ivl_set, agg), LAMBDA f :
                   [ret |-> f.ret,
                    interval_set |-> ivl_set, exclusions |-> <<>>,
                    exclusion_groups |-> <<>>,
                    fits |-> IF f.ret = "table" THEN <<f>> ELSE <<>>])
         ELSE ExclusionFits(ivls_lst, rts, ivl_set, excl_ivls, agg, garbage)))

(***************************************************************************)
(* Optimiser calls.  The chords are stacked thirds of four and eight      *)
(* semitones: their intervals are 4 and 8, which a Python set lists as    *)
(* 8, 4.  The i-th of n chords is rated i, or n + 1 - i.                   *)
(***************************************************************************)
ChordPool == { <<60, 64>>, <<60, 68>>, <<60, 64, 68>>, <<60, 68, 76>> }

ExcludeChoices == { <<>>, <<4>>, <<8>>, <<4, 8>>, <<8, 4>>, <<4, 4>> }

RatingsFor(n) == { [i \in 1..n |-> i], [i \in 1..n |-> n + 1 - i] }

\* what an unassigned entry of np.empty may hold
Garbage == {-1, 0, 1}

\* np.empty(intervals_lst.size) has more entries than the batch has chords
Unassigned(ps_lst) ==
    LET ivls_lst == SeqOf(LAMBDA i : get_octave_intervals(ps_lst[i]), Len(ps_lst))
    IN  ArraySize(ivls_lst) > Len(ivls_lst)

OptInit ==
    /\ pc = "call" /\ fn = ""
    /\ agg_method \in {"sum", "type"}
    /\ pitches_lst \in SeqsOf(ChordPool, 1, MaxChords)
    /\ ratings \in RatingsFor(Len(pitches_lst))
    /\ exclude_ivls \in ExcludeChoices
    /\ interval_set = <<>> /\ exclusions = <<>> /\ exclusion_groups = <<>>
    /\ fitted = [ret |-> "none", fits |-> <<>>]
    /\ ScoreIdle /\ ResIdle /\ CombIdle

OptimiseIntervalWeights ==
    /\ pc = "call"
    /\ \E garbage \in (IF exclude_ivls # <<>> /\ Unassigned(pitches_lst)
                        THEN Garbage ELSE {0}) :
         \E r \in {optimise_interval_weights(pitches_lst, ratings, exclude_ivls,
                                             agg_method, garbage)} :
             /\ interval_set' = SetList(r.interval_set)
             /\ exclusions' = r.exclusions
             /\ exclusion_groups' = r.exclusion_groups
             /\ fitted' = [ret |-> r.ret, fits |-> r.fits]
    /\ pc' = "done"
    /\ fn' = "optimise_interval_weights"
    /\ UNCHANGED <<agg_method, pitches_lst, ratings, exclude_ivls, scoreVars,
                   resVars, combVars>>

OptNext == OptimiseIntervalWeights

SpecOpt == OptInit /\ [][OptNext]_vars

Optimised == pc = "done" /\ fn = "optimise_interval_weights"

Distinct(s) == \A i, j \in DOMAIN s : i # j => s[i] # s[j]

ChordIntervals(c) == Range(get_octave_intervals(pitches_lst[c]))

Occurring == UNION {ChordIntervals(c) : c \in DOMAIN pitches_lst}

Tables == SeqOf(LAMBDA i : fitted.fits[i].table, Len(fitted.fits))

\* C7: with k distinct exclusion labels a returned result has 2^k tables,
\* one per exclusion group, largest group first; table i has 12 entries,
\* None exactly at the labels that group i excludes or that no chord of the
\* batch contains, and a number at every other label.
C7_PaddedTables ==
    ( /\ Optimised /\ fitted.ret = "tables"
      /\ exclude_ivls # <<>> /\ Distinct(exclude_ivls) )
    => /\ Len(Tables) = 2 ^ Len(exclude_ivls)
       /\ Len(exclusions) = Len(Tables)
       /\ {Range(exclusions[i]) : i \in DOMAIN exclusions}
             = SUBSET Range(exclude_ivls)
       /\ \A i \in 1..(Len(exclusions) - 1) :
             Len(exclusions[i]) >= Len(exclusions[i + 1])
       /\ \A i \in DOMAIN Tables :
             /\ Len(Tables[i]) = 12
             /\ \A L \in 1..12 :
                  IF L \in Range(exclusions[i]) \/ L \notin Occurring
                  THEN Tables[i][L] = None
                  ELSE Len(Tables[i][L]) = 2 /\ Tables[i][L][2] > 0

\* two exclusion labels, four groups, every group's fit succeeds
C7_Witness ==
    /\ Optimised /\ fitted.ret = "tables"
    /\ Len(exclude_ivls) = 2 /\ Distinct(exclude_ivls)
    /\ Len(Tables) = 4
    /\ Tables[4][4] # None /\ Tables[4][8] # None

\* C8: every chord gets exactly one group index, that of the first group,
\* in the descending-size order, that excludes none of its intervals; the
\* empty group always matches, so no chord is left unassigned.
C8_FirstMatchingGroup ==
    (Optimised /\ exclude_ivls # <<>>)
    => /\ Len(exclusion_groups) >= Len(pitches_lst)
       /\ exclusions[Len(exclusions)] = <<>>
       /\ \A c \in DOMAIN pitches_lst :
            LET g == exclusion_groups[c]
            IN  /\ g \in 0..(Len(exclusions) - 1)
                /\ Range(exclusions[g + 1]) \cap ChordIntervals(c) = {}
                /\ \A j \in 1..g :
                     Range(exclusions[j]) \cap ChordIntervals(c) # {}

\* three chords in three of the four groups of [4, 8]
C8_Witness ==
    /\ Optimised /\ Len(exclusions) = 4 /\ Len(pitches_lst) >= 3
    /\ {exclusion_groups[c] : c \in DOMAIN pitches_lst} = {1, 2, 3}

\* C9 (as claimed): the tables returned for a non-empty exclusion list are
\* accepted by check_weight_exclusions.
C9_AcceptedByScorer ==
    (Optimised /\ fitted.ret = "tables" /\ exclude_ivls # <<>>)
    => check_weight_exclusions(Tables) = "ok"

\* C10 (as claimed): in every padded table the entry at label L is the
\* coefficient of the design-matrix column that counts L.
C10_CoefficientAtLabel ==
    (Optimised /\ fitted.ret \in {"table", "tables"})
    => \A i \in DOMAIN fitted.fits :
         \A j \in DOMAIN fitted.fits[i].cols :
            fitted.fits[i].table[fitted.fits[i].cols[j]]
               = fitted.fits[i].coef[j]

====
